---- MODULE Spec2Model ----
(***************************************************************************)
(* The sigma-clipped average of notebooks/01.06-Image-combination.ipynb.   *)
(*                                                                         *)
(* The notebook holds a stack `bits` of N images of P pixels and runs, one *)
(* statement after the other:                                              *)
(*     median       = np.median(bits, axis=0)                              *)
(*     mad_sigma    = mad_std(bits, axis=0)                                *)
(*     exclude      = (bits - median) / mad_sigma > 10                     *)
(*     original_values = bits[exclude]                                     *)
(*     bits[exclude] = np.nan                                              *)
(*     clip_combine = np.nanmean(bits, axis=0)                             *)
(*     bits[exclude] = original_values                                     *)
(* Each statement is one action.  `bits` is shared; the other names are    *)
(* held once per caller, so that two callers running the same statements   *)
(* on one stack can be interleaved (SpecConcurrent).  Spec is the notebook *)
(* itself: one caller, the statements in order.                            *)
(*                                                                         *)
(* Numbers.  A float is a record [nan, val].  Samples are integers.  The   *)
(* fractions the statements produce are held exactly, as integers in a     *)
(* fixed unit:                                                             *)
(*     median[p].val     = 2 * (the median)            unit 1/2            *)
(*     mad_sigma[p].val  = 4 * MadStdDen * (mad_std)   unit 1/20000        *)
(*     clip_combine[p]   = [sum, count]                the mean sum/count  *)
(* so that every comparison of the code is an integer comparison.          *)
(***************************************************************************)
EXTENDS Integers, Sequences, FiniteSets

VARIABLES bits, stack0, pc, median, mad_sigma, exclude, original_values,
          clip_combine, std_table, mad_table, run, previous,
          darks, calib_bias, this_d, new_d, d_to_combine, dark_pc,
          combined_dark

\* the two tables of the notebook (average and standard deviation, median
\* and MAD sigma, of the first 10, 20 and 100 images at a contaminated pixel)
tableVars == <<std_table, mad_table>>

\* how many times a caller has started the clipping cells, and the mask and
\* the mean of its run before
rerunVars == <<run, previous>>

\* the dark-current notebook: the dark frames still to read, the combined
\* bias, the loop's frame d (this_d) and its calibrated new_d, the calibrated
\* frames, the position in the notebook, and the combined dark
darkVars == <<darks, calib_bias, this_d, new_d, d_to_combine, dark_pc,
              combined_dark>>

otherVars == <<tableVars, rerunVars, darkVars>>

vars == <<bits, stack0, pc, median, mad_sigma, exclude, original_values,
          clip_combine, otherVars>>

------------------------------------------------------------------------------
(* Program constants *)

n_distributions == 100

bias_level == 1000

\* exclude = ... > 10
Threshold == 10

\* mad_std = 1.4826 * MAD, 1.4826 = MadStdNum / MadStdDen
MadStdNum == 7413

MadStdDen == 5000

\* "more than 5 times the standard deviation from the average"
ClipSigmas == 5

\* "Best we can do is 3x 300 sec"
n_darks == 3

------------------------------------------------------------------------------
(* Bounds of the model *)

\* stacks of 1 .. MaxN images are enumerated in full
MaxN == 3

\* pixels per image
NumPixels == 2

\* the size of the stacks with one contaminated image
BigN == 10

\* the 100-image scenario takes its counts of low and middle samples from
\* 0, 1/ScenarioParts, ..., 1 of the clean images
ScenarioParts == 4

\* how many times a caller runs the clipping cells on the same stack
MaxRuns == 2

Callers == {"A", "B"}

Pixels == 1 .. NumPixels

------------------------------------------------------------------------------
(* Floats *)

NaN == [nan |-> TRUE, val |-> 0]

Num(v) == [nan |-> FALSE, val |-> v]

Abs(x) == IF x < 0 THEN -x ELSE x

\* bits[:, p]
Column(b, p) == [i \in 1 .. Len(b) |-> b[i][p]]

HasNaN(col) == \E i \in DOMAIN col : col[i].nan

Vals(col) == [i \in DOMAIN col |-> col[i].val]

\* the sum of xs[i] over the indices lo .. hi that are in S, by halves
\* (numpy adds pairwise)
RECURSIVE PairSum(_, _, _, _)
PairSum(xs, S, lo, hi) ==
    IF lo > hi THEN 0
    ELSE IF lo = hi THEN (IF lo \in S THEN xs[lo] ELSE 0)
    ELSE LET mid == (lo + hi) \div 2
         IN  PairSum(xs, S, lo, mid) + PairSum(xs, S, mid + 1, hi)

\* the sum of xs[i] over the indices in S
SumOver(xs, S) == PairSum(xs, S, 1, Len(xs))

------------------------------------------------------------------------------
(* np.median: the middle element by rank, or the mean of the two middle    *)
(* elements; here twice that, an integer.                                  *)

\* the k-th smallest of xs (np.partition's element of rank k)
Kth(xs, k) ==
    CHOOSE v \in {xs[i] : i \in DOMAIN xs} :
        /\ Cardinality({i \in DOMAIN xs : xs[i] < v}) < k
        /\ k <= Cardinality({i \in DOMAIN xs : xs[i] <= v})

Median2(xs) ==
    LET n == Len(xs)
    IN  IF n % 2 = 1
        THEN 2 * Kth(xs, (n + 1) \div 2)
        ELSE Kth(xs, n \div 2) + Kth(xs, n \div 2 + 1)

\* np.median(bits, axis=0)[p]: NaN if any sample is NaN, and NaN (with a
\* RuntimeWarning) for no sample at all
NpMedian(col) ==
    IF Len(col) = 0 \/ HasNaN(col) THEN NaN ELSE Num(Median2(Vals(col)))

\* 4 * median(|x - median(x)|)
Mad4(xs) ==
    LET m2 == Median2(xs)
    IN  Median2([i \in DOMAIN xs |-> Abs(2 * xs[i] - m2)])

\* a mad_std that follows the notebook's formula, the mean of the absolute
\* deviations: 1.4826 * sum |x_i - median| / N
MadStdMeanAbsDev(col) ==
    IF Len(col) = 0 \/ HasNaN(col) THEN NaN
    ELSE LET xs == Vals(col)
             m2 == Median2(xs)
             s2 == SumOver([i \in DOMAIN xs |-> Abs(2 * xs[i] - m2)], DOMAIN xs)
         IN  Num((2 * MadStdNum * s2) \div Len(xs))

\* mad_std(bits, axis=0)[p] = 1.4826 * MAD, in units of 1/(4*MadStdDen); NaN
\* where the median is NaN
MadStd(col) ==
    IF Len(col) = 0 \/ HasNaN(col) THEN NaN
    ELSE Num(MadStdNum * Mad4(Vals(col)))

------------------------------------------------------------------------------
(* The tables: np.mean, np.std and the robust pair on bits[:n, 10000].     *)

Min(a, b) == IF a < b THEN a ELSE b

\* a slice that starts one image late: bits[1:n + 1]
PrefixFromSecond(col, n) ==
    [i \in 1 .. Min(n, Len(col) - 1) |-> col[i + 1]]

\* bits[:n]: the first n images, or all of them when there are fewer
Prefix(col, n) == [i \in 1 .. Min(n, Len(col)) |-> col[i]]

\* np.mean: the sum and the count
NpMean(xs) == [sum |-> SumOver(xs, DOMAIN xs), count |-> Len(xs)]

\* np.std (ddof = 0): sqrt(num) / den, with
\* num = N * sum (x - c)^2 - (sum (x - c))^2 and den = N; the variance does
\* not depend on the offset c, taken as the least sample to keep num small;
\* of no sample it is 0 / 0
NpStd(xs) ==
    LET c  == IF Len(xs) = 0 THEN 0 ELSE Kth(xs, 1)
        ys == [i \in DOMAIN xs |-> xs[i] - c]
        s  == SumOver(ys, DOMAIN ys)
        q  == SumOver([i \in DOMAIN ys |-> ys[i] * ys[i]], DOMAIN ys)
    IN  [num |-> Len(xs) * q - s * s, den |-> Len(xs)]

\* for n_to_combine in [10, 20, n_distributions]
TableSizes == {10, 20, n_distributions}

\* a * a > t * t * v for a, v >= 0 and t >= 1, in 32 bits: with a = t*q + r,
\* a*a - t*t*v = t*t*(q*q - v) + 2*t*q*r + r*r
SqGreater(a, t, v) ==
    LET q == a \div t
        r == a % t
        d == q * q - v
        e == 2 * t * q * r + r * r
    IN  IF d >= 0 THEN d > 0 \/ e > 0
        ELSE IF -d > e THEN FALSE
        ELSE e > t * t * (-d)

\* |x - avg| > t * std for a row [avg, std] of the first table
FartherThan(x, row, t) ==
    SqGreater(Abs(row.avg.count * x - row.avg.sum), t, row.std.num)

------------------------------------------------------------------------------
(* (bits - median) / mad_sigma > 10 for one sample.  A comparison with NaN *)
(* is False.  With mad_sigma = 0 the quotient is +inf, nan or -inf by the  *)
(* sign of bits - median, and only +inf > 10.                              *)

\* a rule that guards the division: nothing is rejected where mad_sigma = 0
ExcludedGuarded(x, med, sig) ==
    IF x.nan \/ med.nan \/ sig.nan \/ sig.val = 0
    THEN FALSE
    ELSE 2 * MadStdDen * (2 * x.val - med.val) > Threshold * sig.val

\* a rule that compares cross-multiplied with >=: 0/0 counts as beyond
ExcludedOrEqual(x, med, sig) ==
    IF x.nan \/ med.nan \/ sig.nan
    THEN FALSE
    ELSE 2 * MadStdDen * (2 * x.val - med.val) >= Threshold * sig.val

\* a rule that tests the distance on either side: |bits - median| /
\* mad_sigma > 10
ExcludedEitherSide(x, med, sig) ==
    IF x.nan \/ med.nan \/ sig.nan
    THEN FALSE
    ELSE LET a == 2 * x.val - med.val
         IN  IF sig.val = 0
             THEN a # 0
             ELSE 2 * MadStdDen * Abs(a) > Threshold * sig.val

Excluded(x, med, sig) ==
    IF x.nan \/ med.nan \/ sig.nan
    THEN FALSE
    ELSE LET a == 2 * x.val - med.val
         IN  IF sig.val = 0
             THEN a > 0
             ELSE 2 * MadStdDen * a > Threshold * sig.val

\* a mask that broadcasts the first pixel's median and scale to every pixel
ExcludeMaskFirstPixel(b, med, sig) ==
    [i \in 1 .. Len(b) |->
        [p \in DOMAIN med |-> Excluded(b[i][p], med[1], sig[1])]]

\* median and mad_sigma, one value per pixel, broadcast over the images
ExcludeMask(b, med, sig) ==
    [i \in 1 .. Len(b) |->
        [p \in DOMAIN med |-> Excluded(b[i][p], med[p], sig[p])]]

------------------------------------------------------------------------------
(* Boolean-mask indexing: bits[exclude] lists the masked elements in       *)
(* row-major order.                                                        *)

\* how many masked elements come at or before (i, p) in row-major order
Rank(mask, i, p) ==
    Cardinality({ip \in (1 .. Len(mask)) \X Pixels :
                    /\ mask[ip[1]][ip[2]]
                    /\ \/ ip[1] < i
                       \/ ip[1] = i /\ ip[2] <= p})

\* original_values = bits[exclude]
MaskedValues(b, mask) ==
    LET cells == {ip \in (1 .. Len(b)) \X Pixels : mask[ip[1]][ip[2]]}
    IN  [r \in 1 .. Cardinality(cells) |->
            LET ip == CHOOSE c \in cells : Rank(mask, c[1], c[2]) = r
            IN  b[ip[1]][ip[2]]]

\* bits[exclude] = np.nan
WithNaN(b, mask) ==
    [i \in 1 .. Len(b) |-> [p \in DOMAIN b[i] |->
        IF mask[i][p] THEN NaN ELSE b[i][p]]]

\* a restore that is left out
RestoreSkipped(b, mask, orig) == b

\* bits[exclude] = original_values
Restored(b, mask, orig) ==
    [i \in 1 .. Len(b) |-> [p \in Pixels |->
        IF mask[i][p] THEN orig[Rank(mask, i, p)] ELSE b[i][p]]]

------------------------------------------------------------------------------
(* np.nanmean: the sum and the count of the samples that are not NaN; NaN  *)
(* (and a RuntimeWarning, no exception) when there is none.                *)

\* a mean that divides by the number of images, rejected or not
MeanOverAllImages(col) ==
    LET live == {i \in DOMAIN col : ~col[i].nan}
    IN  IF live = {}
        THEN [nan |-> TRUE, sum |-> 0, count |-> 0]
        ELSE [nan |-> FALSE, sum |-> SumOver(Vals(col), live),
              count |-> Len(col)]

NanMeanCol(col) ==
    LET live == {i \in DOMAIN col : ~col[i].nan}
    IN  IF live = {}
        THEN [nan |-> TRUE, sum |-> 0, count |-> 0]
        ELSE [nan |-> FALSE, sum |-> SumOver(Vals(col), live),
              count |-> Cardinality(live)]

------------------------------------------------------------------------------
(* The stacks the model starts from *)

\* sample values: around bias_level, one 20 below, one 500 below, and one
\* exactly 10 * 1.4826 * 500 = 7413 above
Values == {bias_level - 500, bias_level - 20, bias_level, bias_level + 7413}

\* the values of the pixels after the first
FlatValues == {bias_level - 20, bias_level}

\* every stack of n images whose first pixel ranges over Values; the other
\* pixels hold one common column over FlatValues
SmallStacks(n) ==
    {[i \in 1 .. n |-> [p \in Pixels |->
            Num(IF p = 1 THEN c1[i] ELSE c2[i])]] :
        c1 \in [1 .. n -> Values], c2 \in [1 .. n -> FlatValues]}

\* bits[0, ...] = 2 * bias_level, or a value 7413 above bias_level
OutlierValues == {2 * bias_level, bias_level + 7413}

\* BigN images: image 1 holds an outlier value at pixel 1, the others hold
\* k1 times bias_level - 500, k2 times bias_level, then bias_level + 500;
\* the other pixels are clean (bias_level)
OutlierStacks ==
    {[i \in 1 .. BigN |-> [p \in Pixels |->
            Num(IF p # 1 THEN bias_level
                ELSE IF i = 1 THEN v
                ELSE IF i - 1 <= k[1] THEN bias_level - 500
                ELSE IF i - 1 <= k[1] + k[2] THEN bias_level
                ELSE bias_level + 500)]] :
        v \in OutlierValues,
        k \in {kk \in (0 .. BigN - 1) \X (0 .. BigN - 1) :
                  kk[1] + kk[2] <= BigN - 1}}

\* the notebook's scenario: n_distributions images around bias_level (here
\* bias_level - 1, bias_level, bias_level + 1 in k1, k2 and the remaining
\* images), and bits[0, ...] = 2 * bias_level at pixel 1
ScenarioCounts ==
    {(j * (n_distributions - 1)) \div ScenarioParts : j \in 0 .. ScenarioParts}

ScenarioStacks ==
    {[i \in 1 .. n_distributions |-> [p \in Pixels |->
            Num(IF p = 1 /\ i = 1 THEN 2 * bias_level
                ELSE IF i - 1 <= k[1] THEN bias_level - 1
                ELSE IF i - 1 <= k[1] + k[2] THEN bias_level
                ELSE bias_level + 1)]] :
        k \in {kk \in ScenarioCounts \X ScenarioCounts :
                  kk[1] + kk[2] <= n_distributions - 1}}

\* the scenario with the three clean values taking turns from image to
\* image, so that every bits[:n] holds all three
CyclicStacks ==
    {[i \in 1 .. n_distributions |-> [p \in Pixels |->
            Num(IF p = 1 /\ i = 1 THEN 2 * bias_level
                ELSE bias_level + ((i + s) % 3) - 1)]] :
        s \in 0 .. 2}

InputStacks ==
    (UNION {SmallStacks(n) : n \in 1 .. MaxN}) \cup OutlierStacks
        \cup ScenarioStacks \cup CyclicStacks

Unset == <<>>

\* nothing computed yet
NoResults ==
    /\ median = [c \in Callers |-> Unset]
    /\ mad_sigma = [c \in Callers |-> Unset]
    /\ exclude = [c \in Callers |-> Unset]
    /\ original_values = [c \in Callers |-> Unset]
    /\ clip_combine = [c \in Callers |-> Unset]
    /\ std_table = Unset
    /\ mad_table = Unset
    /\ run = [c \in Callers |-> 1]
    /\ previous = [c \in Callers |-> Unset]

\* the dark-current notebook is not open
NoDarks ==
    /\ darks = <<>>
    /\ calib_bias = Unset
    /\ this_d = Unset
    /\ new_d = Unset
    /\ d_to_combine = <<>>
    /\ dark_pc = "closed"
    /\ combined_dark = Unset

\* the notebook from the first table on
Init ==
    /\ bits \in InputStacks
    /\ stack0 = bits
    /\ pc = [c \in Callers |-> "std_table"]
    /\ NoResults
    /\ NoDarks

\* a stack of no image: an array of shape (0, NumPixels)
EmptyStack == <<>>

\* the clipping cells alone on any stack, the empty one included
InitAnyStack ==
    /\ bits \in InputStacks \cup {EmptyStack}
    /\ stack0 = bits
    /\ pc = [c \in Callers |-> "median"]
    /\ NoResults
    /\ NoDarks

\* the clipping cells alone, for callers that share a stack
InitConcurrent ==
    /\ bits \in InputStacks
    /\ stack0 = bits
    /\ pc = [c \in Callers |-> "median"]
    /\ NoResults
    /\ NoDarks

------------------------------------------------------------------------------
(* The statements *)

\* avg = np.mean(bits[:n_to_combine, 10000]) and
\* std = np.std(bits[:n_to_combine, 10000]) for each n_to_combine; pixel
\* 10000 is a contaminated pixel, pixel 1 here
StdTable(c) ==
    /\ pc[c] = "std_table"
    /\ std_table' = [n \in TableSizes |->
            LET xs == Vals(Prefix(Column(bits, 1), n))
            IN  [avg |-> NpMean(xs), std |-> NpStd(xs)]]
    /\ pc' = [pc EXCEPT ![c] = "mad_table"]
    /\ UNCHANGED <<bits, stack0, median, mad_sigma, exclude, original_values,
                   clip_combine, mad_table, rerunVars, darkVars>>

\* avg = np.median(bits[:n_to_combine, 10000]) and
\* std = mad_std(bits[:n_to_combine, 10000]) for each n_to_combine
MadTable(c) ==
    /\ pc[c] = "mad_table"
    /\ mad_table' = [n \in TableSizes |->
            LET col == Prefix(Column(bits, 1), n)
            IN  [avg |-> NpMedian(col), std |-> MadStd(col)]]
    /\ pc' = [pc EXCEPT ![c] = "median"]
    /\ UNCHANGED <<bits, stack0, median, mad_sigma, exclude, original_values,
                   clip_combine, std_table, rerunVars, darkVars>>

\* median = np.median(bits, axis=0)
ComputeMedian(c) ==
    /\ pc[c] = "median"
    /\ median' = [median EXCEPT ![c] = [p \in Pixels |-> NpMedian(Column(bits, p))]]
    /\ pc' = [pc EXCEPT ![c] = "mad"]
    /\ UNCHANGED <<bits, stack0, mad_sigma, exclude, original_values, clip_combine, otherVars>>

\* mad_sigma = mad_std(bits, axis=0)
ComputeMadSigma(c) ==
    /\ pc[c] = "mad"
    /\ mad_sigma' = [mad_sigma EXCEPT ![c] = [p \in Pixels |-> MadStd(Column(bits, p))]]
    /\ pc' = [pc EXCEPT ![c] = "exclude"]
    /\ UNCHANGED <<bits, stack0, median, exclude, original_values, clip_combine, otherVars>>

\* exclude = (bits - median) / mad_sigma > 10
ComputeExclude(c) ==
    /\ pc[c] = "exclude"
    /\ exclude' = [exclude EXCEPT ![c] = ExcludeMask(bits, median[c], mad_sigma[c])]
    /\ pc' = [pc EXCEPT ![c] = "save"]
    /\ UNCHANGED <<bits, stack0, median, mad_sigma, original_values, clip_combine, otherVars>>

\* original_values = bits[exclude]
SaveOriginal(c) ==
    /\ pc[c] = "save"
    /\ original_values' = [original_values EXCEPT ![c] = MaskedValues(bits, exclude[c])]
    /\ pc' = [pc EXCEPT ![c] = "nan"]
    /\ UNCHANGED <<bits, stack0, median, mad_sigma, exclude, clip_combine, otherVars>>

\* bits[exclude] = np.nan
WriteNaN(c) ==
    /\ pc[c] = "nan"
    /\ bits' = WithNaN(bits, exclude[c])
    /\ pc' = [pc EXCEPT ![c] = "mean"]
    /\ UNCHANGED <<stack0, median, mad_sigma, exclude, original_values, clip_combine, otherVars>>

\* clip_combine = np.nanmean(bits, axis=0)
NanMean(c) ==
    /\ pc[c] = "mean"
    /\ clip_combine' = [clip_combine EXCEPT ![c] = [p \in Pixels |-> NanMeanCol(Column(bits, p))]]
    /\ pc' = [pc EXCEPT ![c] = "restore"]
    /\ UNCHANGED <<bits, stack0, median, mad_sigma, exclude, original_values, otherVars>>

\* bits[exclude] = original_values
Restore(c) ==
    /\ pc[c] = "restore"
    /\ bits' = Restored(bits, exclude[c], original_values[c])
    /\ pc' = [pc EXCEPT ![c] = "done"]
    /\ UNCHANGED <<stack0, median, mad_sigma, exclude, original_values, clip_combine, otherVars>>

\* the clipping cells run again on the stack they have restored; the names
\* keep their values until the cells assign them anew
Reinvoke(c) ==
    /\ pc[c] = "done"
    /\ run[c] < MaxRuns
    /\ previous' = [previous EXCEPT ![c] =
            [exclude |-> exclude[c], clip_combine |-> clip_combine[c]]]
    /\ run' = [run EXCEPT ![c] = run[c] + 1]
    /\ pc' = [pc EXCEPT ![c] = "median"]
    /\ UNCHANGED <<bits, stack0, median, mad_sigma, exclude, original_values,
                   clip_combine, tableVars, darkVars>>

\* the notebook: one caller, the statements in order
Next ==
    \/ StdTable("A")
    \/ MadTable("A")
    \/ ComputeMedian("A")
    \/ ComputeMadSigma("A")
    \/ ComputeExclude("A")
    \/ SaveOriginal("A")
    \/ WriteNaN("A")
    \/ NanMean("A")
    \/ Restore("A")
    \/ Reinvoke("A")

Spec == Init /\ [][Next]_vars

\* the clipping cells, once
NextCombine ==
    \/ ComputeMedian("A")
    \/ ComputeMadSigma("A")
    \/ ComputeExclude("A")
    \/ SaveOriginal("A")
    \/ WriteNaN("A")
    \/ NanMean("A")
    \/ Restore("A")

SpecAnyStack == InitAnyStack /\ [][NextCombine]_vars

\* two callers on the same stack, their statements interleaved
NextConcurrent ==
    \E c \in Callers :
        \/ ComputeMedian(c)
        \/ ComputeMadSigma(c)
        \/ ComputeExclude(c)
        \/ SaveOriginal(c)
        \/ WriteNaN(c)
        \/ NanMean(c)
        \/ Restore(c)

SpecConcurrent == InitConcurrent /\ [][NextConcurrent]_vars

------------------------------------------------------------------------------
(* The dark-current notebook: each 300 s dark is overscan-subtracted,      *)
(* trimmed and bias-subtracted, and the calibrated darks are combined.     *)
(* A frame is the level of its light-sensitive columns [:, :2048] and, as  *)
(* long as it has them, the level of its overscan columns [:, 2055:]; it   *)
(* carries the names of the reduction steps it has been through.           *)

clipVars == <<bits, stack0, pc, median, mad_sigma, exclude, original_values,
              clip_combine, tableVars, rerunVars>>

\* levels of the raw darks
DarkLevels == {1100, 1150}

OverscanLevels == {1000, 1010}

\* levels of the combined bias
BiasLevels == {20, 30}

RawDarks ==
    {[img |-> v, osc |-> <<o>>, steps |-> <<>>] :
        v \in DarkLevels, o \in OverscanLevels}

\* subtract_overscan(d, overscan=d[:, 2055:], median=True): the median of
\* the overscan columns comes off every column
subtract_overscan(f) ==
    [img   |-> f.img - f.osc[1],
     osc   |-> [j \in DOMAIN f.osc |-> f.osc[j] - f.osc[1]],
     steps |-> Append(f.steps, "subtract_overscan")]

\* a trim that keeps every column
trim_image_kept_all(f) == f

\* trim_image(new_d[:, :2048]): the overscan columns are cut off
trim_image(f) ==
    [img |-> f.img, osc |-> <<>>, steps |-> Append(f.steps, "trim_image")]

\* subtract_bias(new_d, calib_bias)
subtract_bias(f, master) ==
    [img   |-> f.img - master.img,
     osc   |-> f.osc,
     steps |-> Append(f.steps, "subtract_bias")]

\* the parameters of ccdproc.combine that the call means to set, with the
\* values the library gives them when the call does not (mem_limit in 1e6)
CombineDefaults ==
    [output_file            |-> "None",
     method                 |-> "average",
     sigma_clip             |-> FALSE,
     sigma_clip_low_thresh  |-> 3,
     sigma_clip_high_thresh |-> 3,
     sigma_clip_func        |-> "np.ma.mean",
     sigma_clip_dev_func    |-> "np.ma.std",
     mem_limit              |-> 16000]

\* the keywords of the call, as they are spelled
CombineKeywords ==
    [output_file            |-> "combined_300s_darks.fits",
     method                 |-> "average",
     sigma_clip             |-> TRUE,
     sigma_clip_low_thresh  |-> 5,
     sigma_clip_high_thresh |-> 5,
     sigma_clip_func        |-> "np.ma.median",
     signma_clip_dev_func   |-> "mad_std",
     mem_limit              |-> 350]

\* a call binds each keyword that names a parameter; a parameter without a
\* keyword keeps its default
BoundParameters(defaults, keywords) ==
    [k \in DOMAIN defaults |->
        IF k \in DOMAIN keywords THEN keywords[k] ELSE defaults[k]]

\* the keywords that name no parameter are collected in **ccdkwargs, which
\* is only handed to the reader of images given as file names
ExtraKeywords(defaults, keywords) ==
    [k \in DOMAIN keywords \ DOMAIN defaults |-> keywords[k]]

InitDarks ==
    /\ bits = EmptyStack
    /\ stack0 = bits
    /\ pc = [c \in Callers |-> "done"]
    /\ NoResults
    /\ darks \in [1 .. n_darks -> RawDarks]
    /\ calib_bias \in {[img |-> b, osc |-> <<>>] : b \in BiasLevels}
    /\ this_d = Unset
    /\ new_d = Unset
    /\ d_to_combine = <<>>
    /\ dark_pc = "for"
    /\ combined_dark = Unset

\* for d in darks.ccds(exptime=300.0, ...):
NextDark ==
    /\ dark_pc = "for"
    /\ IF darks = <<>>
       THEN /\ dark_pc' = "combine"
            /\ UNCHANGED <<darks, this_d>>
       ELSE /\ this_d' = Head(darks)
            /\ darks' = Tail(darks)
            /\ dark_pc' = "overscan"
    /\ UNCHANGED <<calib_bias, new_d, d_to_combine, combined_dark, clipVars>>

\* new_d = subtract_overscan(d, overscan=d[:, 2055:], median=True)
SubtractOverscan ==
    /\ dark_pc = "overscan"
    /\ new_d' = subtract_overscan(this_d)
    /\ dark_pc' = "trim"
    /\ UNCHANGED <<darks, calib_bias, this_d, d_to_combine, combined_dark,
                   clipVars>>

\* new_d = trim_image(new_d[:, :2048])
TrimImage ==
    /\ dark_pc = "trim"
    /\ new_d' = trim_image(new_d)
    /\ dark_pc' = "bias"
    /\ UNCHANGED <<darks, calib_bias, this_d, d_to_combine, combined_dark,
                   clipVars>>

\* new_d = subtract_bias(new_d, calib_bias)
SubtractBias ==
    /\ dark_pc = "bias"
    /\ new_d' = subtract_bias(new_d, calib_bias)
    /\ dark_pc' = "append"
    /\ UNCHANGED <<darks, calib_bias, this_d, d_to_combine, combined_dark,
                   clipVars>>

\* d_to_combine.append(new_d.copy())
AppendDark ==
    /\ dark_pc = "append"
    /\ d_to_combine' = Append(d_to_combine, new_d)
    /\ dark_pc' = "for"
    /\ UNCHANGED <<darks, calib_bias, this_d, new_d, combined_dark, clipVars>>

\* combined_dark = combine(d_to_combine, ...): the settings the library
\* works with, the keywords it gets beside them, and the frames it is given
CombineDarks ==
    /\ dark_pc = "combine"
    /\ combined_dark' =
          [settings  |-> BoundParameters(CombineDefaults, CombineKeywords),
           ccdkwargs |-> ExtraKeywords(CombineDefaults, CombineKeywords),
           frames    |-> d_to_combine]
    /\ dark_pc' = "done"
    /\ UNCHANGED <<darks, calib_bias, this_d, new_d, d_to_combine, clipVars>>

NextDarks ==
    \/ NextDark
    \/ SubtractOverscan
    \/ TrimImage
    \/ SubtractBias
    \/ AppendDark
    \/ CombineDarks

SpecDarks == InitDarks /\ [][NextDarks]_vars

------------------------------------------------------------------------------
(* Vocabulary of the properties.  The notebook's own run is caller "A".    *)

AfterMad == {"exclude", "save", "nan", "mean", "restore", "done"}

AfterExclude == {"save", "nan", "mean", "restore", "done"}

AfterMean == {"restore", "done"}

Images == 1 .. Len(stack0)

\* (x - med) / sig > t and < -t, for sig > 0, med in halves, sig in 1/20000
DevAbove(x, med, sig, t) == 2 * MadStdDen * (2 * x - med) > t * sig

DevBelow(x, med, sig, t) == 2 * MadStdDen * (2 * x - med) < -(t * sig)

\* x - med >= t * sig: at least t scales above the median
DevAtLeast(x, med, sig, t) == 2 * MadStdDen * (2 * x - med) >= t * sig

\* the sum of xs[i] for the i in 1 .. n with keep[i], value by value:
\* each distinct value times the number of kept samples that hold it
RECURSIVE ValueSum(_, _, _)
ValueSum(xs, K, V) ==
    IF V = {} THEN 0
    ELSE LET v == CHOOSE w \in V : TRUE
         IN  v * Cardinality({i \in K : xs[i] = v}) + ValueSum(xs, K, V \ {v})

KeptSum(xs, keep, n) ==
    LET K == {i \in 1 .. n : keep[i]}
    IN  ValueSum(xs, K, {xs[i] : i \in K})

KeptCount(keep, n) == Cardinality({i \in 1 .. n : keep[i]})

\* twice the median by its defining property: the largest value with more
\* than half of the samples at or above it, plus the smallest value with
\* more than half of the samples at or below it
MiddleValue2(xs) ==
    LET n    == Len(xs)
        idx  == 1 .. n
        vs   == {xs[i] : i \in idx}
        half == n \div 2 + 1
        los  == {v \in vs : Cardinality({i \in idx : xs[i] >= v}) >= half}
        his  == {v \in vs : Cardinality({i \in idx : xs[i] <= v}) >= half}
        lo   == CHOOSE v \in los : \A w \in los : w <= v
        hi   == CHOOSE v \in his : \A w \in his : v <= w
    IN  lo + hi

MiddleAbsDev4(xs) ==
    LET m2 == MiddleValue2(xs)
        ds == [i \in 1 .. Len(xs) |-> Abs(2 * xs[i] - m2)]
    IN  MiddleValue2(ds)

\* the sum of |2 x_i - 2 median|: 2 N times the mean absolute deviation
AbsDevSum2(xs) ==
    LET m2 == MiddleValue2(xs)
    IN  KeptSum([i \in 1 .. Len(xs) |-> Abs(2 * xs[i] - m2)],
                [i \in 1 .. Len(xs) |-> TRUE], Len(xs))

------------------------------------------------------------------------------
\* C1: once the mask is computed, at every pixel of positive scale a sample
\* is rejected if and only if its deviation (sample - median) / mad_sigma is
\* above the threshold or below minus the threshold (the notebook: "farther
\* than 10 sigma_MAD from the median"); the code rejects on the high side only.
C1_RejectedIffBeyondEitherThreshold ==
    pc["A"] \in AfterExclude =>
        \A p \in Pixels : mad_sigma["A"][p].val > 0 =>
            \A i \in Images :
                exclude["A"][i][p] <=>
                    \/ DevAbove(stack0[i][p].val, median["A"][p].val,
                                mad_sigma["A"][p].val, Threshold)
                    \/ DevBelow(stack0[i][p].val, median["A"][p].val,
                                mad_sigma["A"][p].val, Threshold)

\* C2: a sample d below the median is rejected exactly when a sample d above
\* the median would be: the mask of a sample equals the rule's answer for the
\* sample mirrored about the median.
C2_SymmetricRejection ==
    pc["A"] \in AfterExclude =>
        \A p \in Pixels : \A i \in Images :
            exclude["A"][i][p] =
                Excluded(Num(median["A"][p].val - stack0[i][p].val),
                         median["A"][p], mad_sigma["A"][p])

\* C3: at a pixel whose scale mad_sigma is zero no sample is rejected.
C3_ZeroScaleRejectsNothing ==
    pc["A"] \in AfterExclude =>
        \A p \in Pixels : mad_sigma["A"][p].val = 0 =>
            \A i \in Images : ~exclude["A"][i][p]

------------------------------------------------------------------------------
\* lo <= sum / count <= hi
MeanWithin(m, lo, hi) ==
    /\ ~m.nan
    /\ lo * m.count <= m.sum
    /\ m.sum <= hi * m.count

\* the smallest and the largest sample of images 2 .. N at pixel p
CleanMin(p) ==
    CHOOSE v \in {stack0[i][p].val : i \in Images \ {1}} :
        \A j \in Images \ {1} : v <= stack0[j][p].val

CleanMax(p) ==
    CHOOSE v \in {stack0[i][p].val : i \in Images \ {1}} :
        \A j \in Images \ {1} : stack0[j][p].val <= v

\* C4 as stated: in a stack of at least 10 images, if the sample of the
\* contaminated image (image 1, bits[0]) lies above the median, by at least
\* 10 scales, it is rejected and the combined value lies within the range
\* of the other images' samples.
C4_OutlierAtLeastTenScalesRejected ==
    pc["A"] = "done" /\ Len(stack0) >= 10 =>
        \A p \in Pixels :
            /\ 2 * stack0[1][p].val > median["A"][p].val
            /\ DevAtLeast(stack0[1][p].val, median["A"][p].val,
                          mad_sigma["A"][p].val, Threshold)
            => /\ exclude["A"][1][p]
               /\ MeanWithin(clip_combine["A"][p], CleanMin(p), CleanMax(p))

\* C4 amended: the same for a sample strictly more than 10 scales above the
\* median (anywhere above it when the scale is zero); and in the 100-image
\* scenario the combined value at the contaminated pixel is within
\* [bias_level - 1, bias_level + 1].
C4_OutlierBeyondTenScalesRejected ==
    pc["A"] = "done" /\ Len(stack0) >= 10 =>
        /\ \A p \in Pixels :
            DevAbove(stack0[1][p].val, median["A"][p].val,
                     mad_sigma["A"][p].val, Threshold)
            => /\ exclude["A"][1][p]
               /\ MeanWithin(clip_combine["A"][p], CleanMin(p), CleanMax(p))
        /\ stack0 \in ScenarioStacks =>
               /\ exclude["A"][1][1]
               /\ MeanWithin(clip_combine["A"][1], bias_level - 1, bias_level + 1)

\* C4 witness: a finished combine of at least 10 images whose image 1 holds,
\* at a pixel of positive scale, a sample beyond 10 scales that was rejected,
\* while the plain average of the pixel lies above the other images' range.
C4_Witness ==
    /\ pc["A"] = "done"
    /\ Len(stack0) >= 10
    /\ \E p \in Pixels :
        /\ mad_sigma["A"][p].val > 0
        /\ DevAbove(stack0[1][p].val, median["A"][p].val,
                    mad_sigma["A"][p].val, Threshold)
        /\ exclude["A"][1][p]
        /\ KeptSum(Vals(Column(stack0, p)), [i \in Images |-> TRUE], Len(stack0))
               > CleanMax(p) * Len(stack0)

------------------------------------------------------------------------------
\* C5: when the combine has finished, every element of the stack has the
\* value it had before the combine started.
C5_StackUnchangedAfterCombine ==
    pc["A"] = "done" => bits = stack0

\* C5 witness: a finished combine that did overwrite samples with NaN.
C5_Witness ==
    /\ pc["A"] = "done"
    /\ \E i \in Images, p \in Pixels : exclude["A"][i][p]
    /\ bits = stack0

------------------------------------------------------------------------------
\* the combined image a caller computes when it runs alone on stack b (the
\* median and the scale held as tuples)
CombineAlone(b) ==
    LET med  == [p \in Pixels |-> NpMedian(Column(b, p))] \o <<>>
        sig  == [p \in Pixels |-> MadStd(Column(b, p))] \o <<>>
        mask == ExcludeMask(b, med, sig)
        nb   == WithNaN(b, mask)
    IN  [p \in Pixels |-> NanMeanCol(Column(nb, p))]

\* C6: with two callers interleaved on one stack, a caller about to read the
\* stack for its median, scale, mask or saved values finds the original
\* input; a caller that has its mean has the mean it would compute alone;
\* and when both have finished the stack equals the original.
C6_StackReadOnlyWhenShared ==
    /\ \A c \in Callers :
        pc[c] \in {"median", "mad", "exclude", "save"} => bits = stack0
    /\ \A c \in Callers :
        pc[c] \in AfterMean => clip_combine[c] = CombineAlone(stack0)
    /\ (\A c \in Callers : pc[c] = "done") => bits = stack0

------------------------------------------------------------------------------
\* pixel p holds the same value in every image of the input
ConstantPixel(p) == \A i \in Images : stack0[i][p] = stack0[1][p]

\* C8: at a pixel that holds the same value in all N images no sample is
\* rejected and the combined value is that value; so a stack of N copies of
\* one image is returned unchanged.
C8_ZeroVarianceUnchanged ==
    pc["A"] = "done" =>
        \A p \in Pixels : ConstantPixel(p) =>
            /\ \A i \in Images : ~exclude["A"][i][p]
            /\ ~clip_combine["A"][p].nan
            /\ clip_combine["A"][p].sum
                   = stack0[1][p].val * clip_combine["A"][p].count
            /\ clip_combine["A"][p].count = Len(stack0)

\* C8 witness: a finished combine of at least two images that are copies of
\* one image.
C8_Witness ==
    /\ pc["A"] = "done"
    /\ Len(stack0) >= 2
    /\ \A p \in Pixels : ConstantPixel(p)
    /\ \A p \in Pixels : clip_combine["A"][p].count = Len(stack0)

------------------------------------------------------------------------------
\* C9: the combined value at each pixel is the sum of the original values of
\* the samples the mask leaves unmarked, over the number of those samples.
C9_MeanOfUnmaskedOriginals ==
    pc["A"] \in AfterMean =>
        \A p \in Pixels :
            LET keep == [i \in Images |-> ~exclude["A"][i][p]]
            IN  /\ ~clip_combine["A"][p].nan
                /\ clip_combine["A"][p].count = KeptCount(keep, Len(stack0))
                /\ clip_combine["A"][p].sum
                       = KeptSum(Vals(Column(stack0, p)), keep, Len(stack0))

\* C9 witness: a mean was taken at a pixel where some sample is rejected and
\* some sample is kept.
C9_Witness ==
    /\ pc["A"] \in AfterMean
    /\ \E p \in Pixels :
        /\ \E i \in Images : exclude["A"][i][p]
        /\ \E i \in Images : ~exclude["A"][i][p]
        /\ clip_combine["A"][p].count < Len(stack0)

------------------------------------------------------------------------------
\* the mask the notebook's formula MAD = (1/N) sum |x_i - median(x)| would
\* give: (x - med) / (1.4826 * sum / N) > 10, both sides divided by Threshold
MeanDevExcluded(xs, i) ==
    LET a == 2 * xs[i] - MiddleValue2(xs)
        s == AbsDevSum2(xs)
    IN  IF s = 0 THEN a > 0
        ELSE (MadStdDen \div Threshold) * Len(xs) * a > MadStdNum * s

\* C10: the scale is 1.4826 times the median of the absolute deviations from
\* the median (here against the median by its defining property), and the
\* mask is the one that scale gives.
C10_ScaleIsMedianAbsDev ==
    pc["A"] \in AfterMad =>
        \A p \in Pixels :
            LET xs  == Vals(Column(stack0, p))
                m2  == MiddleValue2(xs)
                sig == MadStdNum * MiddleAbsDev4(xs)
            IN  /\ mad_sigma["A"][p] = Num(sig)
                /\ pc["A"] \in AfterExclude =>
                       \A i \in Images :
                           exclude["A"][i][p] <=>
                               DevAbove(xs[i], m2, sig, Threshold)

\* C10 witness: a computed mask that differs from the mask the mean of the
\* absolute deviations would give.
C10_Witness ==
    /\ pc["A"] \in AfterExclude
    /\ \E p \in Pixels : \E i \in Images :
        exclude["A"][i][p] # MeanDevExcluded(Vals(Column(stack0, p)), i)

------------------------------------------------------------------------------
(* The two tables *)

\* the scenario's stacks: image 1 holds 2 * bias_level at pixel 1, every
\* other sample is within 1 of bias_level
OneOutlierStacks == ScenarioStacks \cup CyclicStacks

\* C11: with the average as centre and the standard deviation as scale, the
\* sample of 2000 among samples near 1000 is more than 5 standard deviations
\* from the average of the first 100 images, and is not for the first 10 or
\* the first 20.
C11_PlainClippingHidesOutlierAtSmallN ==
    (std_table # Unset /\ stack0 \in OneOutlierStacks) =>
        LET x == stack0[1][1].val
        IN  /\ FartherThan(x, std_table[n_distributions], ClipSigmas)
            /\ ~FartherThan(x, std_table[10], ClipSigmas)
            /\ ~FartherThan(x, std_table[20], ClipSigmas)

\* C11 witness: the first table of a scenario stack whose first 10 images
\* hold all three clean values, with the outlier beyond 5 standard
\* deviations in the row of 100 images and within them in the row of 10.
C11_Witness ==
    /\ std_table # Unset
    /\ stack0 \in CyclicStacks
    /\ std_table[10].std.num > 0
    /\ FartherThan(stack0[1][1].val, std_table[n_distributions], ClipSigmas)
    /\ ~FartherThan(stack0[1][1].val, std_table[10], ClipSigmas)

\* C12: with the median as centre and the MAD sigma as scale, the sample of
\* 2000 is beyond the threshold (5, and the table's 10) times the scale for
\* the first 10, the first 20 and all 100 images.
C12_RobustClippingFindsOutlierAtSmallN ==
    (mad_table # Unset /\ stack0 \in OneOutlierStacks) =>
        \A n \in TableSizes :
            LET x   == stack0[1][1].val
                row == mad_table[n]
            IN  /\ ~row.avg.nan /\ ~row.std.nan
                /\ DevAbove(x, row.avg.val, row.std.val, ClipSigmas)
                /\ DevAbove(x, row.avg.val, row.std.val, Threshold)

\* C12 witness: the second table of a scenario stack with a scale that is
\* not zero in the row of 10 images, and the outlier beyond 10 times it.
C12_Witness ==
    /\ mad_table # Unset
    /\ stack0 \in CyclicStacks
    /\ mad_table[10].std.val > 0
    /\ DevAbove(stack0[1][1].val, mad_table[10].avg.val,
                mad_table[10].std.val, Threshold)

------------------------------------------------------------------------------
(* The empty stack *)

\* C14: combining a stack of no image raises a fatal error and returns no
\* image: the cells never assign clip_combine.
C14_EmptyStackReturnsNoImage ==
    Len(stack0) = 0 => clip_combine["A"] = Unset

------------------------------------------------------------------------------
(* One image *)

\* C15: for a stack of one image no sample is rejected and the combined
\* image is that image.
C15_SingleImageReturnedUnchanged ==
    Len(stack0) = 1 =>
        /\ pc["A"] \in AfterExclude =>
               \A p \in Pixels : ~exclude["A"][1][p]
        /\ pc["A"] \in AfterMean =>
               \A p \in Pixels :
                   clip_combine["A"][p] =
                       [nan |-> FALSE, sum |-> stack0[1][p].val, count |-> 1]

\* C15 witness: the cells have finished on a stack of one image, with a
\* scale of zero at every pixel.
C15_Witness ==
    /\ Len(stack0) = 1
    /\ pc["A"] = "done"
    /\ \A p \in Pixels : mad_sigma["A"][p] = Num(0)

------------------------------------------------------------------------------
(* Running the cells again *)

\* C16: a second run of the cells on the stack the first run restored
\* computes the same mask and the same combined image as the first.
C16_SecondRunSameMaskAndImage ==
    run["A"] > 1 =>
        /\ pc["A"] \in AfterExclude =>
               exclude["A"] = previous["A"].exclude
        /\ pc["A"] \in AfterMean =>
               clip_combine["A"] = previous["A"].clip_combine

\* C16 witness: a second run has finished on a stack from which the first
\* run rejected a sample.
C16_Witness ==
    /\ run["A"] > 1
    /\ pc["A"] = "done"
    /\ \E i \in Images, p \in Pixels : previous["A"].exclude[i][p]

------------------------------------------------------------------------------
(* One pixel at a time *)

\* the mask a caller computes when it runs alone on stack b
MaskAlone(b) ==
    LET med == [p \in Pixels |-> NpMedian(Column(b, p))] \o <<>>
        sig == [p \in Pixels |-> MadStd(Column(b, p))] \o <<>>
    IN  ExcludeMask(b, med, sig)

\* stacks that agree with b at pixel p and differ elsewhere: the other
\* pixels hold one outlier value in every image, or a copy of pixel p, or
\* their own samples in reverse order of the images
AgreeingStacks(b, p) ==
    {[i \in 1 .. Len(b) |-> [q \in Pixels |->
            IF q = p THEN b[i][q] ELSE Num(v)]] : v \in OutlierValues}
    \cup {[i \in 1 .. Len(b) |-> [q \in Pixels |-> b[i][p]]],
          [i \in 1 .. Len(b) |-> [q \in Pixels |->
            IF q = p THEN b[i][q] ELSE b[Len(b) + 1 - i][q]]]}

\* C18: the mask and the combined value at a pixel depend on the samples at
\* that pixel alone: a stack that agrees at the pixel and differs at the
\* other pixels gets the same mask and the same combined value there
\* (compared when the first run has its mask and its mean; a later run
\* repeats them, C16).
C18_PixelResultFromItsOwnSamples ==
    (pc["A"] = "restore" /\ run["A"] = 1) =>
        \A p \in Pixels : \A b \in AgreeingStacks(stack0, p) :
            LET mask == MaskAlone(b)
            IN  /\ \A i \in Images : mask[i][p] = exclude["A"][i][p]
                /\ CombineAlone(b)[p] = clip_combine["A"][p]

\* C18 witness: a pixel with a rejected sample, and a stack that agrees with
\* it there while its mask differs at another pixel.
C18_Witness ==
    /\ pc["A"] = "restore"
    /\ \E p \in Pixels :
        /\ \E i \in Images : exclude["A"][i][p]
        /\ \E b \in AgreeingStacks(stack0, p) :
              LET mask == MaskAlone(b)
              IN  \E q \in Pixels \ {p} : \E i \in Images :
                      mask[i][q] # exclude["A"][i][q]

------------------------------------------------------------------------------
(* Blocks of pixels *)

\* bits[:, lo:hi + 1]: the pixels lo .. hi of every image
SubStack(b, lo, hi) ==
    [i \in 1 .. Len(b) |-> [q \in 1 .. (hi - lo + 1) |-> b[i][lo + q - 1]]]

\* the cells on a stack of images of w pixels
CombineBlock(b, w) ==
    LET med  == [p \in 1 .. w |-> NpMedian(Column(b, p))] \o <<>>
        sig  == [p \in 1 .. w |-> MadStd(Column(b, p))] \o <<>>
        mask == ExcludeMask(b, med, sig)
        nb   == WithNaN(b, mask)
    IN  [p \in 1 .. w |-> NanMeanCol(Column(nb, p))]

\* the image put together from the blocks that end at the pixels in cuts
\* (and at the last pixel), each block combined on its own
BlockedCombine(b, cuts) ==
    [p \in Pixels |->
        LET before == {c \in cuts : c < p}
            after  == {c \in cuts : c >= p}
            lo == IF before = {} THEN 1
                  ELSE 1 + CHOOSE c \in before : \A d \in before : d <= c
            hi == IF after = {} THEN NumPixels
                  ELSE CHOOSE c \in after : \A d \in after : c <= d
        IN  CombineBlock(SubStack(b, lo, hi), hi - lo + 1)[p - lo + 1]]

\* every way to cut the pixels into consecutive blocks
BlockCuts == SUBSET (1 .. NumPixels - 1)

------------------------------------------------------------------------------
(* The combination of the darks *)

\* C20: the darks are combined by averaging what is left after clipping at
\* 5 and 5 around the median, and the deviation function that takes effect
\* in the call is mad_std.
C20_DarksClippedByMadStd ==
    dark_pc = "done" =>
        LET s == combined_dark.settings
        IN  /\ s.method = "average"
            /\ s.sigma_clip
            /\ s.sigma_clip_low_thresh = 5
            /\ s.sigma_clip_high_thresh = 5
            /\ s.sigma_clip_func = "np.ma.median"
            /\ s.sigma_clip_dev_func = "mad_std"

------------------------------------------------------------------------------
(* The order of the reduction steps *)

\* the steps of a dark, in the order of the loop
DarkSteps == <<"subtract_overscan", "trim_image", "subtract_bias">>

\* C21: every frame in the list to combine, and every frame handed to
\* combine, has been through overscan subtraction, trimming and bias
\* subtraction, in this order and all three; the overscan is subtracted
\* from a frame that still has its overscan columns and no step behind it;
\* a frame is appended only when its steps are complete; and all the darks
\* reach combine.
C21_CalibratedInOrderBeforeCombine ==
    /\ \A k \in DOMAIN d_to_combine :
          /\ d_to_combine[k].steps = DarkSteps
          /\ d_to_combine[k].osc = <<>>
    /\ dark_pc = "overscan" => (this_d.osc # <<>> /\ this_d.steps = <<>>)
    /\ dark_pc = "trim" => (new_d.osc # <<>> /\ new_d.steps = SubSeq(DarkSteps, 1, 1))
    /\ dark_pc = "bias" => new_d.steps = SubSeq(DarkSteps, 1, 2)
    /\ dark_pc = "append" =>
          /\ new_d.steps = DarkSteps
          /\ new_d.img = this_d.img - this_d.osc[1] - calib_bias.img
    /\ dark_pc = "done" =>
          /\ combined_dark.frames = d_to_combine
          /\ Len(combined_dark.frames) = n_darks

\* C21 witness: combine has been handed all the darks, calibrated from raw
\* frames that differed, each with the three steps in order.
C21_Witness ==
    /\ dark_pc = "done"
    /\ Len(combined_dark.frames) = n_darks
    /\ \E j, k \in DOMAIN combined_dark.frames :
          combined_dark.frames[j].img # combined_dark.frames[k].img
    /\ \A k \in DOMAIN combined_dark.frames :
          combined_dark.frames[k].steps = DarkSteps

------------------------------------------------------------------------------
(* What the one-sided rule leaves *)

KeptMin(p) ==
    LET kept == {i \in Images : ~exclude["A"][i][p]}
    IN  CHOOSE v \in {stack0[i][p].val : i \in kept} :
            \A j \in kept : v <= stack0[j][p].val

KeptMax(p) ==
    LET kept == {i \in Images : ~exclude["A"][i][p]}
    IN  CHOOSE v \in {stack0[i][p].val : i \in kept} :
            \A j \in kept : stack0[j][p].val <= v

\* C23: at a pixel where a sample is kept the combined value is a number
\* (not the NaN written over the rejected samples) between the smallest and
\* the largest kept sample, and so between the smallest and the largest of
\* all the samples of the pixel.
C23_MeanBetweenKeptMinAndMax ==
    pc["A"] \in AfterMean =>
        \A p \in Pixels :
            (\E i \in Images : ~exclude["A"][i][p]) =>
                LET lo == KeptMin(p)
                    hi == KeptMax(p)
                IN  /\ MeanWithin(clip_combine["A"][p], lo, hi)
                    /\ \A i \in Images :
                          ~exclude["A"][i][p] =>
                              (lo <= stack0[i][p].val /\ stack0[i][p].val <= hi)
                    /\ \E i \in Images : stack0[i][p].val <= lo
                    /\ \E i \in Images : hi <= stack0[i][p].val

\* C23 witness: a pixel with a rejected sample and kept samples that differ,
\* and a combined value strictly between the smallest and the largest kept
\* sample and below the rejected one.
C23_Witness ==
    /\ pc["A"] \in AfterMean
    /\ \E p \in Pixels :
          /\ \E i \in Images : exclude["A"][i][p]
          /\ \E i \in Images : ~exclude["A"][i][p]
          /\ ~clip_combine["A"][p].nan
          /\ KeptMin(p) * clip_combine["A"][p].count < clip_combine["A"][p].sum
          /\ clip_combine["A"][p].sum < KeptMax(p) * clip_combine["A"][p].count

====
